---- MODULE Spec2Model ----
(***************************************************************************)
(* A model of the XVM language extension (src/src/extension.ts): the       *)
(* reference-file parser parseGlobals, the file locator findGlobalsFile,   *)
(* activation, and the completion, hover and signature-help providers.     *)
(*                                                                         *)
(* Text is a sequence of characters; a character is a one-character        *)
(* string (the two non-ASCII dashes of the description pattern are the     *)
(* strings "EM" and "EN").  A regular expression of the source is an       *)
(* operator that scans the characters the way the expression matches.      *)
(***************************************************************************)
EXTENDS Integers, Sequences, FiniteSets, TLC

\* ------------------------------------------------------------------ bounds

\* Lines of the reference file the parser's loop reads in one run.
MaxLines == 3

\* ------------------------------------------------------------- characters

\* \s of the source's regular expressions, and what trim() strips.
WS == {" ", "\t"}

\* \w of the source's regular expressions: letters, digits, underscore.
WordCh ==
    {"a","b","c","d","e","f","g","h","i","j","k","l","m","n","o","p","q","r",
     "s","t","u","v","w","x","y","z","A","B","E","F","H","S","T","_",
     "0","1","2","3","4","5","6","7","8","9"}

\* The decimal digits, in order.
DigitCh == <<"0","1","2","3","4","5","6","7","8","9">>

\* The character class [—–-] of the description pattern.
DashCh == {"EM", "EN", "-"}

Min(S) == CHOOSE x \in S : \A y \in S : x <= y

Max(S) == CHOOSE x \in S : \A y \in S : x >= y

\* The first index j >= i of s whose character is not in S (Len(s)+1 if none):
\* where a greedy run [S]* that starts at i ends.
SkipIn(s, i, S) ==
    CHOOSE j \in i..(Len(s) + 1) :
        /\ \A k \in i..(j - 1) : s[k] \in S
        /\ (j = Len(s) + 1 \/ s[j] \notin S)

\* The first index j >= i of s whose character is in S (Len(s)+1 if none):
\* where a greedy run [^S]* that starts at i ends.
SkipNotIn(s, i, S) ==
    CHOOSE j \in i..(Len(s) + 1) :
        /\ \A k \in i..(j - 1) : s[k] \notin S
        /\ (j = Len(s) + 1 \/ s[j] \in S)

\* The character of s at i, or "" past either end.
At(s, i) == IF i >= 1 /\ i <= Len(s) THEN s[i] ELSE ""

\* String.prototype.trim
Trim(s) ==
    LET keep == {i \in 1..Len(s) : s[i] \notin WS}
    IN  IF keep = {} THEN << >> ELSE SubSeq(s, Min(keep), Max(keep))

\* String.prototype.trimEnd
TrimEnd(s) ==
    LET keep == {i \in 1..Len(s) : s[i] \notin WS}
    IN  IF keep = {} THEN << >> ELSE SubSeq(s, 1, Max(keep))

\* str.split(/,\s*/) when plus is FALSE, str.split(/,\s+/) when plus is TRUE:
\* the separators are found left to right, each a comma with the whole
\* whitespace run after it; a comma with no whitespace after it is no
\* separator of /,\s+/.
RECURSIVE SplitComma(_, _)
SplitComma(s, plus) ==
    LET seps == {i \in 1..Len(s) :
                    s[i] = "," /\ (plus => At(s, i + 1) \in WS)}
    IN  IF seps = {} THEN << s >>
        ELSE LET i == Min(seps)
                 j == SkipIn(s, i + 1, WS)
             IN  << SubSeq(s, 1, i - 1) >>
                    \o SplitComma(SubSeq(s, j, Len(s)), plus)

\* Array.prototype.map(t => t.trim())
RECURSIVE MapTrim(_)
MapTrim(xs) ==
    IF xs = << >> THEN << >> ELSE << Trim(Head(xs)) >> \o MapTrim(Tail(xs))

\* ------------------------------------------------------ the line patterns

NoMatch == [ok |-> FALSE]

\* /^#\s+(\w+)\s+[—–-]\s+(.+)$/ : groups name and desc.  The last \s+ is
\* greedy but leaves (.+) at least one character.
DescMatch(t) ==
    LET a == SkipIn(t, 2, WS)
        b == SkipIn(t, a, WordCh)
        c == SkipIn(t, b, WS)
        d == SkipIn(t, c + 1, WS)
        e == IF d > Len(t) THEN Len(t) ELSE d
    IN  IF /\ At(t, 1) = "#"
           /\ a > 2
           /\ b > a
           /\ c > b
           /\ At(t, c) \in DashCh
           /\ e > c + 1
        THEN [ok |-> TRUE, name |-> SubSeq(t, a, b - 1),
              desc |-> SubSeq(t, e, Len(t))]
        ELSE NoMatch

\* The optional group (?:\s*->\s*(\w+))? tried at index i: the return type,
\* or << >> when the group does not match (the group is then undefined).
ArrowType(t, i) ==
    LET e == SkipIn(t, i, WS)
        f == SkipIn(t, e + 2, WS)
        g == SkipIn(t, f, WordCh)
    IN  IF At(t, e) = "-" /\ At(t, e + 1) = ">" /\ g > f
        THEN SubSeq(t, f, g - 1)
        ELSE << >>

\* /^#\s+\.(\w+)\(([^)]*)\)(?:\s*->\s*(\w+))?/ : groups name, params, ret.
MethodMatch(t) ==
    LET a == SkipIn(t, 2, WS)
        b == SkipIn(t, a + 1, WordCh)
        c == SkipNotIn(t, b + 1, {")"})
    IN  IF /\ At(t, 1) = "#"
           /\ a > 2
           /\ At(t, a) = "."
           /\ b > a + 1
           /\ At(t, b) = "("
           /\ c <= Len(t)
        THEN [ok |-> TRUE, name |-> SubSeq(t, a + 1, b - 1),
              params |-> SubSeq(t, b + 1, c - 1),
              ret |-> ArrowType(t, c + 1)]
        ELSE NoMatch

\* /^#\s+Types?:\s*(.+)$/ : group names.  \s* is greedy but leaves (.+) at
\* least one character.
TypesMatch(t) ==
    LET a == SkipIn(t, 2, WS)
        q == IF At(t, a + 4) = "s" /\ At(t, a + 5) = ":" THEN a + 5 ELSE a + 4
        d == SkipIn(t, q + 1, WS)
        e == IF d > Len(t) THEN Len(t) ELSE d
    IN  IF /\ At(t, 1) = "#"
           /\ a > 2
           /\ Len(t) >= a + 3
           /\ SubSeq(t, a, a + 3) = <<"T", "y", "p", "e">>
           /\ At(t, q) = ":"
           /\ e > q
        THEN [ok |-> TRUE, names |-> SubSeq(t, e, Len(t))]
        ELSE NoMatch

\* IsBareName without the test for the marker: any non-blank line.
IsBareName_NoMarkerTest(t) == t # << >>

\* trimmed && !trimmed.startsWith('#')
IsBareName(t) == t # << >> /\ t[1] # "#"

\* trimmed.replace(/^#\s+/, '')
StripMarker(t) ==
    LET a == SkipIn(t, 2, WS)
    IN  IF At(t, 1) = "#" /\ a > 2 THEN SubSeq(t, a, Len(t)) ELSE t

\* ------------------------------------------------------------ parseGlobals

VARIABLES
    modules,        \* parseGlobals' Map, as its entries in insertion order
    currentModule,  \* the name of the entry currentModule refers to, or Null
    line,           \* the loop variable: the line processed last
    nLines,         \* how many lines the loop has processed
    before,         \* history: modules and currentModule before that line
    given,          \* history: the case of LineCases that line was drawn from
    lastMarker      \* history: "desc" or "bare", the kind of the last such
                    \* line among the lines before that line; "none" if none

\* currentModule = null.  No key of the map is empty: \w+ and a non-blank
\* trimmed line both hold a character.
Null == << >>

\* return type when the arrow clause is absent: methodMatch[3] || 'void'
VoidType == <<"v", "o", "i", "d">>

\* modules.has(name)
Has(mods, name) == \E i \in 1..Len(mods) : mods[i].name = name

IndexOf(mods, name) == CHOOSE i \in 1..Len(mods) : mods[i].name = name

\* modules.get(name), for a name the map has
Get(mods, name) == mods[IndexOf(mods, name)]

\* new ModuleInfo with no methods and no types
NewModule(name, description) ==
    [name |-> name, description |-> description,
     methods |-> << >>, types |-> << >>]

\* DescStep that sets a fresh ModuleInfo whether or not the map has the name.
DescStep_AlwaysSet(mods, name, desc) ==
    [modules |->
        IF ~Has(mods, name) THEN Append(mods, NewModule(name, desc))
        ELSE [mods EXCEPT ![IndexOf(mods, name)] = NewModule(name, desc)],
     currentModule |-> name]

\* A description line: pre-create the module or update its description, and
\* make it the current module.
DescStep(mods, name, desc) ==
    [modules |->
        IF ~Has(mods, name) THEN Append(mods, NewModule(name, desc))
        ELSE [mods EXCEPT ![IndexOf(mods, name)].description = desc],
     currentModule |-> name]

\* paramsStr ? paramsStr.split(/,\s*/) : []
MethodParams(params) ==
    LET paramsStr == Trim(params)
    IN  IF paramsStr # << >> THEN SplitComma(paramsStr, FALSE) ELSE << >>

\* The MethodInfo pushed for a matched method line.
MethodOf(m, trimmed) ==
    [name |-> m.name,
     params |-> MethodParams(m.params),
     returnType |-> IF m.ret # << >> THEN m.ret ELSE VoidType,
     raw |-> StripMarker(trimmed)]

\* MethodStep with unshift in place of push.
MethodStep_Unshift(mods, cur, m, trimmed) ==
    [modules |->
        [mods EXCEPT ![IndexOf(mods, cur)].methods =
                            << MethodOf(m, trimmed) >> \o @],
     currentModule |-> cur]

\* A method line with a current module: currentModule.methods.push(...)
MethodStep(mods, cur, m, trimmed) ==
    [modules |->
        [mods EXCEPT ![IndexOf(mods, cur)].methods =
                            Append(@, MethodOf(m, trimmed))],
     currentModule |-> cur]

\* typesMatch[1].split(/,\s+/).map(t => t.trim())
TypeNames(names) == MapTrim(SplitComma(names, TRUE))

\* A Types line with a current module: currentModule.types.push(...typeNames)
TypesStep(mods, cur, m) ==
    [modules |->
        [mods EXCEPT ![IndexOf(mods, cur)].types = @ \o TypeNames(m.names)],
     currentModule |-> cur]

\* BareStep without the reset of currentModule.
BareStep_NoReset(mods, cur, moduleName) ==
    [modules |->
        IF cur # Null /\ cur = moduleName THEN mods
        ELSE IF ~Has(mods, moduleName)
             THEN Append(mods, NewModule(moduleName, << >>))
             ELSE mods,
     currentModule |-> cur]

\* A bare module name: create the module unless it is the current one or
\* the map has it, and reset currentModule.
BareStep(mods, cur, moduleName) ==
    [modules |->
        IF cur # Null /\ cur = moduleName THEN mods
        ELSE IF ~Has(mods, moduleName)
             THEN Append(mods, NewModule(moduleName, << >>))
             ELSE mods,
     currentModule |-> Null]

\* One iteration of parseGlobals' loop over the lines.
ParseLine(mods, cur, ln) ==
    LET trimmed == Trim(ln)
        descMatch == DescMatch(trimmed)
        methodMatch == MethodMatch(trimmed)
        typesMatch == TypesMatch(trimmed)
    IN  IF descMatch.ok
        THEN DescStep(mods, descMatch.name, descMatch.desc)
        ELSE IF methodMatch.ok /\ cur # Null
        THEN MethodStep(mods, cur, methodMatch, trimmed)
        ELSE IF typesMatch.ok /\ cur # Null
        THEN TypesStep(mods, cur, typesMatch)
        ELSE IF IsBareName(trimmed)
        THEN BareStep(mods, cur, trimmed)
        ELSE [modules |-> mods, currentModule |-> cur]

\* parseGlobals' loop from a given state over the lines of a file
RECURSIVE ParseFrom(_, _, _)
ParseFrom(mods, cur, lines) ==
    IF lines = << >> THEN mods
    ELSE LET st == ParseLine(mods, cur, Head(lines))
         IN  ParseFrom(st.modules, st.currentModule, Tail(lines))

\* parseGlobals on the text of a file that exists and is read
ParseText(lines) == ParseFrom(<< >>, Null, lines)

\* The lines a reference file is made of here: each with the text the
\* parser reads and, for the properties, what the line was written to be
\* (its kind, the module or method it names, its description, its return
\* type, << >> where it has none).
LineCases ==
    {
     \* "# v - d"
     [kind |-> "desc", name |-> <<"v">>, desc |-> <<"d">>, ret |-> << >>,
      text |-> <<"#", " ", "v", " ", "-", " ", "d">>],
     \* "# v - e f"
     [kind |-> "desc", name |-> <<"v">>, desc |-> <<"e", " ", "f">>, ret |-> << >>,
      text |-> <<"#", " ", "v", " ", "-", " ", "e", " ", "f">>],
     \* "# go — d"
     [kind |-> "desc", name |-> <<"g", "o">>, desc |-> <<"d">>, ret |-> << >>,
      text |-> <<"#", " ", "g", "o", " ", "EM", " ", "d">>],
     \* " #<TAB>go  -  e "
     [kind |-> "desc", name |-> <<"g", "o">>, desc |-> <<"e">>, ret |-> << >>,
      text |-> <<" ", "#", "\t", "g", "o", " ", " ", "-", " ", " ", "e", " ">>],
     \* "#   .H()"
     [kind |-> "method", name |-> <<"H">>, desc |-> << >>, ret |-> << >>,
      text |-> <<"#", " ", " ", " ", ".", "H", "(", ")">>],
     \* "# .S(a, b) -> f"
     [kind |-> "method", name |-> <<"S">>, desc |-> << >>, ret |-> <<"f">>,
      text |-> <<"#", " ", ".", "S", "(", "a", ",", " ", "b", ")", " ", "-", ">", " ", "f">>],
     \* "# .S(a , b)->f"
     [kind |-> "method", name |-> <<"S">>, desc |-> << >>, ret |-> <<"f">>,
      text |-> <<"#", " ", ".", "S", "(", "a", " ", ",", " ", "b", ")", "-", ">", "f">>],
     \* "# .S(a,b)"
     [kind |-> "method", name |-> <<"S">>, desc |-> << >>, ret |-> << >>,
      text |-> <<"#", " ", ".", "S", "(", "a", ",", "b", ")">>],
     \* "# .H( )"
     [kind |-> "method", name |-> <<"H">>, desc |-> << >>, ret |-> << >>,
      text |-> <<"#", " ", ".", "H", "(", " ", ")">>],
     \* "# Types: F, B"
     [kind |-> "types", name |-> << >>, desc |-> << >>, ret |-> << >>,
      text |-> <<"#", " ", "T", "y", "p", "e", "s", ":", " ", "F", ",", " ", "B">>],
     \* "# Type: F,B"
     [kind |-> "types", name |-> << >>, desc |-> << >>, ret |-> << >>,
      text |-> <<"#", " ", "T", "y", "p", "e", ":", " ", "F", ",", "B">>],
     \* "# Types: F , B"
     [kind |-> "types", name |-> << >>, desc |-> << >>, ret |-> << >>,
      text |-> <<"#", " ", "T", "y", "p", "e", "s", ":", " ", "F", " ", ",", " ", "B">>],
     \* "v"
     [kind |-> "bare", name |-> <<"v">>, desc |-> << >>, ret |-> << >>,
      text |-> <<"v">>],
     \* "go"
     [kind |-> "bare", name |-> <<"g", "o">>, desc |-> << >>, ret |-> << >>,
      text |-> <<"g", "o">>],
     \* " w "
     [kind |-> "bare", name |-> <<"w">>, desc |-> << >>, ret |-> << >>,
      text |-> <<" ", "w", " ">>],
     \* ""
     [kind |-> "other", name |-> << >>, desc |-> << >>, ret |-> << >>,
      text |-> << >>],
     \* "# note"
     [kind |-> "other", name |-> << >>, desc |-> << >>, ret |-> << >>,
      text |-> <<"#", " ", "n", "o", "t", "e">>]
    }

NoLine == [kind |-> "other", name |-> << >>, desc |-> << >>, ret |-> << >>,
           text |-> << >>]

parseVars == <<currentModule, line, nLines, before, given, lastMarker>>

VARIABLES
    fsExists,          \* the paths fs.existsSync answers true for
    readRaises,        \* whether fs.readFileSync of the chosen path raises
                       \* (the path is a directory, or access is denied)
    configPath,        \* the setting xvm.globalsPath
    workspaceFolders,  \* vscode.workspace.workspaceFolders
    lpc,               \* where findGlobalsFile / activate stands
    folderIdx,         \* the folder loop's position in workspaceFolders
    candIdx,           \* the candidate loop's position in candidates
    globalsPath,       \* what findGlobalsFile returned
    activation         \* "pending", "ok" (activate returned), "threw"

loadVars == <<fsExists, readRaises, configPath, workspaceFolders, lpc,
              folderIdx, candIdx, globalsPath, activation>>

VARIABLES
    textBefore,        \* provideSignatureHelp: the line up to the cursor
    spc,               \* where provideSignatureHelp stands
    scanI,             \* its loop variable i, as a position 1..Len
    depth,             \* its depth
    parenPos,          \* its parenPos, as a position (0: none, for -1)
    commaCount,        \* its commaCount
    sigResult          \* what it returned

sigVars == <<textBefore, spc, scanI, depth, parenPos, commaCount, sigResult>>

VARIABLES
    hoverLine,         \* provideHover: the line under the cursor
    wordRange,         \* the word range at the cursor, or NoRange
    hoverResult        \* what it returned

hoverVars == <<hoverLine, wordRange, hoverResult>>

VARIABLES
    complText,         \* provideCompletionItems: the line up to the cursor
    items              \* what it returned

complVars == <<complText, items>>

\* parseGlobals before its loop: an empty map, no current module.
ParseInit ==
    /\ currentModule = Null
    /\ line = << >>
    /\ nLines = 0
    /\ before = [modules |-> << >>, currentModule |-> Null]
    /\ given = NoLine
    /\ lastMarker = "none"

\* The loop reads the next line of the file and processes it.
ReadLine ==
    /\ nLines < MaxLines
    /\ \E c \in LineCases :
          LET st == ParseLine(modules, currentModule, c.text)
          IN  /\ modules' = st.modules
              /\ currentModule' = st.currentModule
              /\ line' = c.text
              /\ given' = c
    /\ nLines' = nLines + 1
    /\ before' = [modules |-> modules, currentModule |-> currentModule]
    /\ lastMarker' = IF nLines > 0 /\ given.kind \in {"desc", "bare"}
                     THEN given.kind ELSE lastMarker
    /\ UNCHANGED <<loadVars, sigVars, hoverVars, complVars>>

\* ------------------------------------------- properties of parseGlobals

\* The loop has processed a line: line, given and before describe it.
Processed == nLines > 0

\* C1: a method line or a Types line processed while there is no current
\* module is dropped: the map is the same before and after it and there is
\* still no current module.  There is no current module before any
\* description line, and after a bare-name line until the next description
\* line.
C1_DroppedWithoutModule ==
    /\ lastMarker \in {"none", "bare"} => before.currentModule = Null
    /\ ( /\ Processed
         /\ given.kind \in {"method", "types"}
         /\ before.currentModule = Null )
       => /\ modules = before.modules
          /\ currentModule = Null

\* A method line was dropped after a bare-name line, with modules in the map.
C1_Witness ==
    /\ Processed
    /\ given.kind = "method"
    /\ lastMarker = "bare"
    /\ before.currentModule = Null
    /\ before.modules # << >>

\* C2: a description line for a module the map already has replaces that
\* module's description and nothing else: its methods and types, every
\* other module and the order of the map are unchanged, and the module is
\* the current one.
C2_DescriptionOnlyReplaced ==
    ( /\ Processed
      /\ given.kind = "desc"
      /\ Has(before.modules, given.name) )
    => /\ Len(modules) = Len(before.modules)
       /\ \A i \in 1..Len(modules) :
             modules[i] =
                IF before.modules[i].name = given.name
                THEN [before.modules[i] EXCEPT !.description = given.desc]
                ELSE before.modules[i]
       /\ currentModule = given.name

\* A module with a recorded method was described again, with a new text.
C2_Witness ==
    /\ Processed
    /\ given.kind = "desc"
    /\ Has(before.modules, given.name)
    /\ Get(before.modules, given.name).methods # << >>
    /\ Get(before.modules, given.name).description # given.desc
    /\ Get(modules, given.name).description = given.desc

\* C3: a bare-name line leaves no current module, adds an empty module for
\* its name when the map has none, and changes no module the map has; so a
\* method or Types line between a bare-name line and the next description
\* line is dropped.
C3_BareNameLine ==
    /\ (Processed /\ given.kind = "bare")
       => /\ currentModule = Null
          /\ modules =
                IF Has(before.modules, given.name) THEN before.modules
                ELSE Append(before.modules,
                            [name |-> given.name, description |-> << >>,
                             methods |-> << >>, types |-> << >>])
    /\ ( /\ Processed
         /\ lastMarker = "bare"
         /\ given.kind \in {"method", "types"} )
       => /\ modules = before.modules
          /\ currentModule = Null

\* A bare name the map has was read while another module was current.
C3_Witness ==
    /\ Processed
    /\ given.kind = "bare"
    /\ Has(before.modules, given.name)
    /\ before.currentModule # Null
    /\ before.currentModule # given.name
    /\ currentModule = Null

\* C4: a method line processed while a module is current appends one method
\* to the end of that module's methods, changes nothing else of the map and
\* keeps the current module; the method's return type is 'void' when the
\* line has no arrow clause and the type the clause names otherwise.
C4_MethodAppended ==
    ( /\ Processed
      /\ given.kind = "method"
      /\ before.currentModule # Null )
    => /\ currentModule = before.currentModule
       /\ Len(modules) = Len(before.modules)
       /\ \A i \in 1..Len(modules) :
             LET old == before.modules[i]
                 new == modules[i]
             IN  IF old.name # before.currentModule THEN new = old
                 ELSE /\ new.name = old.name
                      /\ new.description = old.description
                      /\ new.types = old.types
                      /\ Len(new.methods) = Len(old.methods) + 1
                      /\ SubSeq(new.methods, 1, Len(old.methods)) = old.methods
                      /\ new.methods[Len(new.methods)].name = given.name
                      /\ new.methods[Len(new.methods)].returnType =
                            IF given.ret = << >> THEN <<"v", "o", "i", "d">>
                            ELSE given.ret

\* A second method, one without an arrow clause, was added to a module.
C4_Witness ==
    /\ Processed
    /\ given.kind = "method"
    /\ given.ret = << >>
    /\ before.currentModule # Null
    /\ Get(before.modules, before.currentModule).methods # << >>
    /\ Len(Get(modules, before.currentModule).methods) = 2

\* A comma-free token with no whitespace at either end.
IsCleanToken(t) ==
    /\ \A i \in 1..Len(t) : t[i] # ","
    /\ t # << >> => (t[1] \notin WS /\ t[Len(t)] \notin WS)

\* The parenthesized list of a method line is empty.
EmptyParens(t) == \E i \in 1..Len(t) : t[i] = "(" /\ At(t, i + 1) = ")"

\* C10: every parameter name and every type name the parser records is a
\* comma-free token with no whitespace at either end, and an empty
\* parenthesized list yields no parameters.
C10_TokensClean ==
    /\ \A i \in 1..Len(modules) :
          /\ \A k \in 1..Len(modules[i].methods) :
                \A j \in 1..Len(modules[i].methods[k].params) :
                    IsCleanToken(modules[i].methods[k].params[j])
          /\ \A k \in 1..Len(modules[i].types) :
                IsCleanToken(modules[i].types[k])
    /\ ( /\ Processed
         /\ given.kind = "method"
         /\ EmptyParens(given.text)
         /\ before.currentModule # Null )
       => LET ms == Get(modules, currentModule).methods
          IN  ms[Len(ms)].params = << >>

\* -------------------------------------------- findGlobalsFile, activate

\* Workspace folders open at once.
MaxFolders == 2

\* undefined, where a path is expected
Undefined == <<"undefined">>

\* the empty string, where a path is expected
EmptyPath == << >>

\* workspaceFolders when no folder is open
NoFolders == [open |-> FALSE, folders |-> << >>]

\* A path the user may configure that is no other candidate.
CustomPath == <<"custom">>

\* path.join(__dirname, '..', 'xvm_globals.txt')
ExtPath == <<"ext">>

\* path.join(__dirname, '..', '..', 'bin', 'xvm_globals.txt')
ParentPath == <<"parent">>

\* FolderCandidates with the bin candidate first.
FolderCandidates_BinFirst(folder) ==
    << <<"ws", folder, "bin">>, <<"ws", folder, "root">> >>

\* candidates of a workspace folder: <folder>/xvm_globals.txt, then
\* <folder>/bin/xvm_globals.txt
FolderCandidates(folder) ==
    << <<"ws", folder, "root">>, <<"ws", folder, "bin">> >>

FolderPaths(n) ==
    {<<"ws", f, k>> : f \in 1..n, k \in {"root", "bin"}}

\* The texts a reference file that is read may hold.
FileTexts ==
    { << >>,
      << <<"#", " ", "v", " ", "-", " ", "d">>,
         <<"#", " ", ".", "H", "(", ")">>,
         <<"v">> >> }

\* Before activate runs: any file system, setting and set of open folders.
LoadInit ==
    /\ workspaceFolders \in
          {NoFolders} \cup
          {[open |-> TRUE, folders |-> [i \in 1..n |-> i]] : n \in 0..MaxFolders}
    /\ fsExists \in SUBSET ({CustomPath, ExtPath, ParentPath}
                              \cup FolderPaths(Len(workspaceFolders.folders)))
    /\ readRaises \in BOOLEAN
    /\ configPath \in {Undefined, EmptyPath, CustomPath, ExtPath}
                         \cup FolderPaths(Len(workspaceFolders.folders))
    /\ lpc = "config"
    /\ folderIdx = 1
    /\ candIdx = 1
    /\ globalsPath = Undefined
    /\ activation = "pending"

\* 1. the setting: if (configPath && fs.existsSync(configPath)) return it
CheckConfig ==
    /\ lpc = "config"
    /\ IF configPath \notin {Undefined, EmptyPath} /\ configPath \in fsExists
       THEN globalsPath' = configPath /\ lpc' = "returned"
       ELSE globalsPath' = globalsPath /\ lpc' = "folders"
    /\ UNCHANGED <<fsExists, readRaises, configPath, workspaceFolders,
                   folderIdx, candIdx, activation>>
    /\ UNCHANGED <<modules, parseVars, sigVars, hoverVars, complVars>>

\* 2. one candidate of one workspace folder: return it if it exists, else go
\* on to the next candidate, the next folder
CheckCandidate ==
    /\ lpc = "folders"
    /\ workspaceFolders.open
    /\ folderIdx <= Len(workspaceFolders.folders)
    /\ LET candidates == FolderCandidates(workspaceFolders.folders[folderIdx])
           c == candidates[candIdx]
       IN  IF c \in fsExists
           THEN /\ globalsPath' = c
                /\ lpc' = "returned"
                /\ UNCHANGED <<folderIdx, candIdx>>
           ELSE /\ UNCHANGED <<globalsPath, lpc>>
                /\ IF candIdx < Len(candidates)
                   THEN candIdx' = candIdx + 1 /\ folderIdx' = folderIdx
                   ELSE candIdx' = 1 /\ folderIdx' = folderIdx + 1
    /\ UNCHANGED <<fsExists, readRaises, configPath, workspaceFolders,
                   activation>>
    /\ UNCHANGED <<modules, parseVars, sigVars, hoverVars, complVars>>

\* no workspace folder is open, or the folder loop is over
FoldersDone ==
    /\ lpc = "folders"
    /\ ~workspaceFolders.open \/ folderIdx > Len(workspaceFolders.folders)
    /\ lpc' = "ext"
    /\ UNCHANGED <<fsExists, readRaises, configPath, workspaceFolders,
                   folderIdx, candIdx, globalsPath, activation>>
    /\ UNCHANGED <<modules, parseVars, sigVars, hoverVars, complVars>>

\* 3. next to the extension
CheckExt ==
    /\ lpc = "ext"
    /\ IF ExtPath \in fsExists
       THEN globalsPath' = ExtPath /\ lpc' = "returned"
       ELSE globalsPath' = globalsPath /\ lpc' = "parent"
    /\ UNCHANGED <<fsExists, readRaises, configPath, workspaceFolders,
                   folderIdx, candIdx, activation>>
    /\ UNCHANGED <<modules, parseVars, sigVars, hoverVars, complVars>>

\* 4. the parent directory's bin, else return undefined
CheckParent ==
    /\ lpc = "parent"
    /\ globalsPath' = IF ParentPath \in fsExists THEN ParentPath ELSE Undefined
    /\ lpc' = "returned"
    /\ UNCHANGED <<fsExists, readRaises, configPath, workspaceFolders,
                   folderIdx, candIdx, activation>>
    /\ UNCHANGED <<modules, parseVars, sigVars, hoverVars, complVars>>

\* activate with no path found: new Map()
ActivateNoFile ==
    /\ lpc = "returned"
    /\ globalsPath = Undefined
    /\ modules' = << >>
    /\ activation' = "ok"
    /\ lpc' = "done"
    /\ UNCHANGED <<fsExists, readRaises, configPath, workspaceFolders,
                   folderIdx, candIdx, globalsPath>>
    /\ UNCHANGED <<parseVars, sigVars, hoverVars, complVars>>

\* activate with a path: parseGlobals reads the file, which raises or gives
\* the text parseGlobals' loop turns into the map
ActivateParse ==
    /\ lpc = "returned"
    /\ globalsPath # Undefined
    /\ globalsPath \in fsExists
    /\ IF readRaises
       THEN modules' = modules /\ activation' = "threw"
       ELSE /\ \E text \in FileTexts : modules' = ParseText(text)
            /\ activation' = "ok"
    /\ lpc' = "done"
    /\ UNCHANGED <<fsExists, readRaises, configPath, workspaceFolders,
                   folderIdx, candIdx, globalsPath>>
    /\ UNCHANGED <<parseVars, sigVars, hoverVars, complVars>>

\* activate with a path whose file was removed since findGlobalsFile saw
\* it: parseGlobals' fs.existsSync answers false and it returns the empty map
ActivateVanished ==
    /\ lpc = "returned"
    /\ globalsPath # Undefined
    /\ fsExists' = fsExists \ {globalsPath}
    /\ modules' = << >>
    /\ activation' = "ok"
    /\ lpc' = "done"
    /\ UNCHANGED <<readRaises, configPath, workspaceFolders,
                   folderIdx, candIdx, globalsPath>>
    /\ UNCHANGED <<parseVars, sigVars, hoverVars, complVars>>

\* ------------------------------ properties of findGlobalsFile, activate

\* The candidates in the order of their priority: the configured path when
\* one is set, then each open folder's xvm_globals.txt and after it its
\* bin/xvm_globals.txt, folder by folder, then the two paths relative to
\* the extension.
CandidateOrder ==
    LET fs == workspaceFolders.folders
    IN  (IF configPath \in {Undefined, EmptyPath} THEN << >>
         ELSE << configPath >>)
        \o [k \in 1..(2 * Len(fs)) |->
               <<"ws", fs[(k + 1) \div 2], IF k % 2 = 1 THEN "root" ELSE "bin">>]
        \o << ExtPath, ParentPath >>

\* C6: findGlobalsFile returns the first candidate, in the order of their
\* priority, that exists, and undefined exactly when none exists; so a
\* configured path that exists is returned whatever else exists.
C6_FirstExisting ==
    lpc = "returned" =>
       LET ex == {k \in 1..Len(CandidateOrder) : CandidateOrder[k] \in fsExists}
       IN  /\ globalsPath = IF ex = {} THEN Undefined
                            ELSE CandidateOrder[Min(ex)]
           /\ (configPath \in fsExists => globalsPath = configPath)

\* With two folders open, the second folder's xvm_globals.txt was returned
\* although a path relative to the extension exists too, the configured
\* path and the first folder's candidates being absent.
C6_Witness ==
    /\ lpc = "returned"
    /\ Len(workspaceFolders.folders) = 2
    /\ configPath = CustomPath
    /\ globalsPath = <<"ws", 2, "root">>
    /\ <<"ws", 2, "bin">> \in fsExists
    /\ ExtPath \in fsExists

\* C5: loading the reference file never raises: when the chosen path is
\* absent, or exists and cannot be read, activate returns and the map of
\* modules is empty.
C5_LoadNeverRaises ==
    /\ activation # "threw"
    /\ ( /\ lpc = "done"
         /\ \/ globalsPath = Undefined
            \/ globalsPath \notin fsExists
            \/ readRaises )
       => /\ activation = "ok"
          /\ modules = << >>

\* ------------------------------------------------- the fixed tables

\* KEYWORDS
KEYWORDS ==
    << <<"d", "e", "f">>, <<"i", "f">>, <<"e", "l", "i", "f">>, <<"e", "l", "s", "e">>,
       <<"w", "h", "i", "l", "e">>, <<"r", "e", "t", "u", "r", "n">>, <<"p", "a", "s", "s">>, <<"a", "s", "s", "e", "r", "t">>,
       <<"m", "o", "d", "u", "l", "e">>, <<"i", "m", "p", "o", "r", "t">>, <<"a", "n", "d">>,
       <<"o", "r">>, <<"n", "o", "t">> >>

\* CONSTANTS
XvmConstants ==
    << [name |-> <<"t", "r", "u", "e">>, detail |-> "Boolean true"],
       [name |-> <<"f", "a", "l", "s", "e">>, detail |-> "Boolean false"],
       [name |-> <<"n", "o", "n", "e">>, detail |-> "Null value"] >>

\* BUILTINS
BUILTINS ==
    << [name |-> <<"l", "e", "n">>,
        signature |-> <<"l", "e", "n", "(", "o", "b", "j", ")", " ", "-", ">", " ", "f", "l", "o", "a", "t">>,
        detail |-> "Returns the length of a list or collection"],
       [name |-> <<"f", "l", "o", "a", "t">>,
        signature |-> <<"f", "l", "o", "a", "t", "(", "v", "a", "l", "u", "e", ")", " ", "-", ">", " ", "f", "l", "o", "a", "t">>,
        detail |-> "Converts a value to float"],
       [name |-> <<"i", "n", "t">>,
        signature |-> <<"i", "n", "t", "(", "v", "a", "l", "u", "e", ")", " ", "-", ">", " ", "f", "l", "o", "a", "t">>,
        detail |-> "Truncates a float to integer (still returns float type)"],
       [name |-> <<"a", "b", "s">>,
        signature |-> <<"a", "b", "s", "(", "v", "a", "l", "u", "e", ")", " ", "-", ">", " ", "f", "l", "o", "a", "t">>,
        detail |-> "Returns the absolute value"] >>

\* Array.prototype.find(x => x.name === name) on a table of named records:
\* the first such record, or NotFound.
NotFound == [name |-> << >>]

FindByName(table, name) ==
    LET hits == {i \in 1..Len(table) : table[i].name = name}
    IN  IF hits = {} THEN NotFound ELSE table[Min(hits)]

\* Array.prototype.join(', ')
RECURSIVE JoinComma(_)
JoinComma(xs) ==
    IF xs = << >> THEN << >>
    ELSE IF Len(xs) = 1 THEN xs[1]
    ELSE xs[1] \o <<",", " ">> \o JoinComma(Tail(xs))

\* The reference file whose index the providers are asked about.
ReferenceFile ==
    << <<"#", " ", "v", " ", "-", " ", "d">>,
       <<"#", " ", ".", "H", "(", ")">>,
       <<"#", " ", ".", "S", "(", "a", ",", " ", "b", ")", " ", "-", ">", " ", "f">>,
       <<"#", " ", ".", "l", "e", "n", "(", "x", ")">>,
       <<"#", " ", ".", "a", "b", "s", "(", "n", ")">>,
       <<"#", " ", "T", "y", "p", "e", "s", ":", " ", "F", ",", " ", "B">>,
       <<"v">>,
       <<"#", " ", "g", "o", " ", "-", " ", "e">>,
       <<"a", "b", "s">> >>

\* The index activate hands to the providers: that of the reference file,
\* or the empty one (no file found).
Indexes == {ParseText(ReferenceFile), ParseText(<< >>)}

\* ------------------------------------------------ provideSignatureHelp

\* Characters of the text between the callee and the cursor.
MaxArgLen == 5

\* ScanChar that counts a comma at any depth.
ScanChar_AnyDepthComma(ch, d, count) ==
    IF ch = ")" THEN [found |-> FALSE, depth |-> d + 1, commaCount |-> count]
    ELSE IF ch = "("
    THEN IF d = 0 THEN [found |-> TRUE, depth |-> d, commaCount |-> count]
         ELSE [found |-> FALSE, depth |-> d - 1, commaCount |-> count]
    ELSE IF ch = ","
    THEN [found |-> FALSE, depth |-> d, commaCount |-> count + 1]
    ELSE [found |-> FALSE, depth |-> d, commaCount |-> count]

\* The body of the backward loop for one character: whether it is the open
\* parenthesis looked for (break), and depth and commaCount after it.
ScanChar(ch, d, count) ==
    IF ch = ")" THEN [found |-> FALSE, depth |-> d + 1, commaCount |-> count]
    ELSE IF ch = "("
    THEN IF d = 0 THEN [found |-> TRUE, depth |-> d, commaCount |-> count]
         ELSE [found |-> FALSE, depth |-> d - 1, commaCount |-> count]
    ELSE IF ch = "," /\ d = 0
    THEN [found |-> FALSE, depth |-> d, commaCount |-> count + 1]
    ELSE [found |-> FALSE, depth |-> d, commaCount |-> count]

\* The group of /\b(\w+)$/ on t: the word characters t ends in (<< >>: no
\* match).
TrailingWord(t) ==
    LET other == {i \in 1..Len(t) : t[i] \notin WordCh}
    IN  SubSeq(t, IF other = {} THEN 1 ELSE Max(other) + 1, Len(t))

\* /\b(\w+)\.(\w+)$/ on t: the word t ends in, a dot before it, and the
\* word that ends at the dot.
CallMatch(t) ==
    LET method == TrailingWord(t)
        dot == Len(t) - Len(method)
        mod == TrailingWord(SubSeq(t, 1, dot - 1))
    IN  IF method # << >> /\ At(t, dot) = "." /\ mod # << >>
        THEN [ok |-> TRUE, moduleName |-> mod, methodName |-> method]
        ELSE NoMatch

\* The parameters of a built-in, parsed from its signature:
\* signature.match(/\(([^)]*)\)/), then split(/,\s*/) of a non-empty group.
SignatureParams(signature) ==
    LET open == SkipNotIn(signature, 1, {"("})
        close == SkipNotIn(signature, open + 1, {")"})
        inner == SubSeq(signature, open + 1, close - 1)
    IN  IF open <= Len(signature) /\ close <= Len(signature) /\ inner # << >>
        THEN SplitComma(inner, FALSE)
        ELSE << >>

\* `${moduleName}.${method.name}(${paramList})` and, unless the return type
\* is 'void', ` -> ${method.returnType}`
MethodLabel(moduleName, method) ==
    moduleName \o <<".">> \o method.name \o <<"(">>
        \o JoinComma(method.params) \o <<")">>
        \o (IF method.returnType # VoidType
            THEN <<" ", "-", ">", " ">> \o method.returnType ELSE << >>)

NoResult == [kind |-> "none"]

\* ResolveCallee that tries the module.method pattern before the built-ins.
ResolveCallee_MethodFirst(mods, text, pos, count) ==
    IF pos = 0 THEN NoResult
    ELSE
    LET beforeParen == TrimEnd(SubSeq(text, 1, pos - 1))
        builtin == FindByName(BUILTINS, TrailingWord(beforeParen))
        callMatch == CallMatch(beforeParen)
        found == /\ callMatch.ok
                 /\ Has(mods, callMatch.moduleName)
                 /\ FindByName(Get(mods, callMatch.moduleName).methods,
                               callMatch.methodName) # NotFound
    IN  IF found
        THEN LET method == FindByName(Get(mods, callMatch.moduleName).methods,
                                      callMatch.methodName)
             IN  [kind |-> "method",
                  label |-> MethodLabel(callMatch.moduleName, method),
                  documentation |-> method.raw,
                  parameters |-> method.params,
                  activeSignature |-> 0, activeParameter |-> count]
        ELSE IF TrailingWord(beforeParen) # << >> /\ builtin # NotFound
        THEN [kind |-> "builtin", label |-> builtin.signature,
              documentation |-> builtin.detail,
              parameters |-> SignatureParams(builtin.signature),
              activeSignature |-> 0, activeParameter |-> count]
        ELSE NoResult

\* provideSignatureHelp after its loop: the callee before the parenthesis at
\* pos (0: none found) is a built-in, else module.method, else nothing.
ResolveCallee(mods, text, pos, count) ==
    IF pos = 0 THEN NoResult
    ELSE
    LET beforeParen == TrimEnd(SubSeq(text, 1, pos - 1))
        builtin == FindByName(BUILTINS, TrailingWord(beforeParen))
        callMatch == CallMatch(beforeParen)
    IN  IF TrailingWord(beforeParen) # << >> /\ builtin # NotFound
        THEN [kind |-> "builtin", label |-> builtin.signature,
              documentation |-> builtin.detail,
              parameters |-> SignatureParams(builtin.signature),
              activeSignature |-> 0, activeParameter |-> count]
        ELSE IF ~callMatch.ok THEN NoResult
        ELSE IF ~Has(mods, callMatch.moduleName) THEN NoResult
        ELSE LET mod == Get(mods, callMatch.moduleName)
                 method == FindByName(mod.methods, callMatch.methodName)
             IN  IF method = NotFound THEN NoResult
                 ELSE [kind |-> "method",
                       label |-> MethodLabel(callMatch.moduleName, method),
                       documentation |-> method.raw,
                       parameters |-> method.params,
                       activeSignature |-> 0, activeParameter |-> count]

\* Texts over an alphabet, up to a length.
TextsUpTo(alphabet, n) == UNION {[1..k -> alphabet] : k \in 0..n}

\* What may stand before the argument text: nothing, a built-in, a method
\* of the reference file, an identifier that is neither.
Callees ==
    {<< >>, <<"l", "e", "n">>, <<"v", ".", "S">>, <<"x">>}

\* The line up to the cursor: a callee, then parentheses, commas and
\* arguments in any arrangement.
SigTexts ==
    {c \o a : c \in Callees, a \in TextsUpTo({"(", ")", ",", "a"}, MaxArgLen)}

\* provideSignatureHelp is called: the loop starts at the last character.
SigInit ==
    /\ textBefore \in SigTexts
    /\ spc = "scan"
    /\ scanI = Len(textBefore)
    /\ depth = 0
    /\ parenPos = 0
    /\ commaCount = 0
    /\ sigResult = NoResult

\* Characters after the callee's open parenthesis, up to the cursor.
MaxTailLen == 2

\* What may stand before a callee's name: nothing, a module and a dot, a
\* module and a dot and a space, a module without a dot, an unknown module
\* and a dot, a word character, a space.
CalleePrefixes ==
    { << >>, <<"v", ".">>, <<"v", ".", " ">>, <<"v">>, <<"g", "o", ".">>,
      <<"z", ".">>, <<"a">>, <<"x", " ">>, <<".">> }

\* The names tried as callees: the built-ins, methods of the reference
\* file, and names that are neither.
CalleeNames ==
    { <<"l", "e", "n">>, <<"f", "l", "o", "a", "t">>, <<"i", "n", "t">>,
      <<"a", "b", "s">>, <<"S">>, <<"H">>, <<"x">>,
      <<"l", "e", "n", "s">>, << >> }

\* The line up to the cursor: a callee written in some way, maybe
\* whitespace, an open parenthesis and the start of the arguments.
CalleeTexts ==
    {pre \o name \o gap \o <<"(">> \o tail :
        pre \in CalleePrefixes, name \in CalleeNames,
        gap \in {<< >>, <<" ">>, <<"\t", " ">>},
        tail \in TextsUpTo({",", "a", ")"}, MaxTailLen)}

\* provideSignatureHelp is called with the cursor in a call's arguments.
CalleeInit ==
    /\ textBefore \in CalleeTexts
    /\ spc = "scan"
    /\ scanI = Len(textBefore)
    /\ depth = 0
    /\ parenPos = 0
    /\ commaCount = 0
    /\ sigResult = NoResult

\* One iteration of the backward loop.
ScanStep ==
    /\ spc = "scan"
    /\ scanI >= 1
    /\ LET r == ScanChar(textBefore[scanI], depth, commaCount)
       IN  /\ depth' = r.depth
           /\ commaCount' = r.commaCount
           /\ IF r.found
              THEN parenPos' = scanI /\ spc' = "resolve" /\ scanI' = scanI
              ELSE parenPos' = parenPos /\ spc' = spc /\ scanI' = scanI - 1
    /\ UNCHANGED <<textBefore, sigResult>>
    /\ UNCHANGED <<modules, parseVars, loadVars, hoverVars, complVars>>

\* The loop ends at the start of the text with no parenthesis found.
ScanEnd ==
    /\ spc = "scan"
    /\ scanI = 0
    /\ spc' = "resolve"
    /\ UNCHANGED <<textBefore, scanI, depth, parenPos, commaCount, sigResult>>
    /\ UNCHANGED <<modules, parseVars, loadVars, hoverVars, complVars>>

\* The rest of provideSignatureHelp: the result.
Resolve ==
    /\ spc = "resolve"
    /\ sigResult' = ResolveCallee(modules, textBefore, parenPos, commaCount)
    /\ spc' = "done"
    /\ UNCHANGED <<textBefore, scanI, depth, parenPos, commaCount>>
    /\ UNCHANGED <<modules, parseVars, loadVars, hoverVars, complVars>>

\* ------------------------------------ properties of provideSignatureHelp

\* The parentheses of t read forward from position k with the open ones not
\* yet closed on a stack: the pairs that match, and the stack at the end.
RECURSIVE Forward(_, _, _, _)
Forward(t, k, stack, pairs) ==
    IF k > Len(t) THEN [open |-> stack, pairs |-> pairs]
    ELSE IF t[k] = "(" THEN Forward(t, k + 1, Append(stack, k), pairs)
    ELSE IF t[k] = ")" /\ stack # << >>
    THEN Forward(t, k + 1, SubSeq(stack, 1, Len(stack) - 1),
                 pairs \cup {<<stack[Len(stack)], k>>})
    ELSE Forward(t, k + 1, stack, pairs)

\* The commas of t after position p that no matched pair after p encloses.
OuterCommas(t, p) ==
    {c \in (p + 1)..Len(t) :
        /\ t[c] = ","
        /\ ~\E pr \in Forward(t, 1, << >>, {}).pairs :
               p < pr[1] /\ pr[1] < c /\ c < pr[2]}

\* C7: signature help selects the innermost open parenthesis that has no
\* matching close parenthesis before the cursor, and the active parameter
\* is the number of commas after it that lie outside every balanced inner
\* pair; with no unmatched open parenthesis there is no result.
C7_InnermostOpenParen ==
    spc = "done" =>
       LET open == Forward(textBefore, 1, << >>, {}).open
       IN  IF open = << >>
           THEN parenPos = 0 /\ sigResult = NoResult
           ELSE /\ parenPos = open[Len(open)]
                /\ commaCount = Cardinality(OuterCommas(textBefore, parenPos))
                /\ sigResult # NoResult
                      => sigResult.activeParameter = commaCount

\* Help was given for a call whose arguments hold a balanced inner pair
\* with a comma inside it and a comma after it.
C7_Witness ==
    /\ spc = "done"
    /\ sigResult # NoResult
    /\ sigResult.activeParameter = 1
    /\ \E c \in 1..Len(textBefore) :
          /\ textBefore[c] = ","
          /\ c > parenPos
          /\ c \notin OuterCommas(textBefore, parenPos)

\* The position of the last character before position p that is not
\* whitespace (0: none).
LastSolid(t, p) ==
    Max({0} \cup {e \in 1..(p - 1) : t[e] \notin WS})

\* The position where the run of word characters that ends at position e
\* starts (e + 1: no word character at e).
RunStart(t, e) ==
    Min({s \in 1..(e + 1) : \A k \in s..e : t[k] \in WordCh})

\* The identifier directly before position p, whitespace between them
\* aside.
IdentBefore(t, p) ==
    SubSeq(t, RunStart(t, LastSolid(t, p)), LastSolid(t, p))

\* The identifier that ends at the dot before the identifier before p
\* (<< >>: no dot there, or no identifier at the dot).
QualifierBefore(t, p) ==
    LET s == RunStart(t, LastSolid(t, p))
    IN  IF At(t, s - 1) = "."
        THEN SubSeq(t, RunStart(t, s - 2), s - 2)
        ELSE << >>

BuiltinNames == {BUILTINS[i].name : i \in 1..Len(BUILTINS)}

\* C11: signature help tries the identifier before the selected parenthesis
\* as a built-in first and only then as module.method: a built-in name gives
\* the built-in's signature, also after a module and a dot when the module
\* has a method of that name; otherwise an existing method of an existing
\* module gives the method's signature, and everything else no result.
C11_BuiltinBeforeMethod ==
    spc = "done" =>
       IF parenPos = 0 THEN sigResult = NoResult
       ELSE
       LET ident == IdentBefore(textBefore, parenPos)
           qualifier == QualifierBefore(textBefore, parenPos)
           owners == {i \in 1..Len(modules) :
                         /\ ident # << >>
                         /\ modules[i].name = qualifier
                         /\ \E k \in 1..Len(modules[i].methods) :
                               modules[i].methods[k].name = ident}
       IN  IF ident \in BuiltinNames
           THEN /\ sigResult.kind = "builtin"
                /\ \E b \in 1..Len(BUILTINS) :
                      /\ BUILTINS[b].name = ident
                      /\ sigResult.label = BUILTINS[b].signature
                      /\ sigResult.documentation = BUILTINS[b].detail
           ELSE IF owners # {}
           THEN /\ sigResult.kind = "method"
                /\ \E i \in owners :
                      \E k \in 1..Len(modules[i].methods) :
                         LET m == modules[i].methods[k]
                             head == qualifier \o <<".">> \o ident \o <<"(">>
                         IN  /\ m.name = ident
                             /\ SubSeq(sigResult.label, 1, Len(head)) = head
                             /\ sigResult.parameters = m.params
                             /\ sigResult.documentation = m.raw
           ELSE sigResult = NoResult

\* Help was given for the built-in len written after a module and a dot,
\* the module having a method len.
C11_Witness ==
    /\ spc = "done"
    /\ parenPos > 0
    /\ IdentBefore(textBefore, parenPos) = <<"l", "e", "n">>
    /\ \E i \in 1..Len(modules) :
          /\ modules[i].name = QualifierBefore(textBefore, parenPos)
          /\ \E k \in 1..Len(modules[i].methods) :
                modules[i].methods[k].name = <<"l", "e", "n">>
    /\ sigResult.kind = "builtin"

\* -------------------------------------------------------- provideHover

\* [A-Za-z_], what a word of /[A-Za-z_]\w*/ starts with
WordStart == WordCh \ {DigitCh[i] : i \in 1..Len(DigitCh)}

\* No word at the cursor: getWordRangeAtPosition returned undefined.
NoRange == [start |-> 0, end |-> 0]

\* The ranges document.getWordRangeAtPosition(position, /[A-Za-z_]\w*/) may
\* return on a line, as character offsets start (inclusive) and end
\* (exclusive): the matches of the pattern found left to right, each from
\* the first letter or underscore of a run of word characters to its end.
WordRanges(lineText) ==
    {r \in [start : 0..Len(lineText), end : 0..Len(lineText)] :
        /\ r.start < r.end
        /\ lineText[r.start + 1] \in WordStart
        /\ \A k \in (r.start + 1)..r.end : lineText[k] \in WordCh
        /\ At(lineText, r.end + 1) \notin WordCh
        /\ LET prev == TrailingWord(SubSeq(lineText, 1, r.start))
           IN  \A k \in 1..Len(prev) : prev[k] \notin WordStart}

Pending == [kind |-> "pending"]

\* Array.prototype.includes on a table of texts
Includes(table, word) == \E i \in 1..Len(table) : table[i] = word

\* provideHover's first block: a dot before the word, the word a method of
\* the module named before the dot; NoResult when the block returns nothing.
HoverMethod(mods, lineText, range, word) ==
    LET charBefore == range.start
        beforeDot == SubSeq(lineText, 1, charBefore - 1)
        modName == TrailingWord(beforeDot)
    IN  IF ~(charBefore > 0 /\ lineText[charBefore] = ".") THEN NoResult
        ELSE IF modName = << >> \/ ~Has(mods, modName) THEN NoResult
        ELSE LET mod == Get(mods, modName)
                 method == FindByName(mod.methods, word)
             IN  IF method = NotFound THEN NoResult
                 ELSE [kind |-> "method",
                       signature |-> MethodLabel(mod.name, method),
                       name |-> mod.name,
                       description |-> mod.description]

\* provideHover's second block: a dot after the word, the word a module.
HoverModuleDot(mods, lineText, range, word) ==
    LET charAfter == range.end
    IN  IF ~(charAfter < Len(lineText) /\ lineText[charAfter + 1] = ".")
        THEN NoResult
        ELSE IF ~Has(mods, word) THEN NoResult
        ELSE LET mod == Get(mods, word)
             IN  [kind |-> "moduleDot", name |-> mod.name,
                  description |-> mod.description,
                  methodCount |-> Len(mod.methods),
                  types |-> mod.types]

\* provideHover's last blocks: a module, a built-in, a keyword, a constant.
HoverStandalone(mods, word) ==
    IF Has(mods, word)
    THEN [kind |-> "module", name |-> Get(mods, word).name,
          description |-> Get(mods, word).description,
          methodCount |-> Len(Get(mods, word).methods)]
    ELSE IF FindByName(BUILTINS, word) # NotFound
    THEN [kind |-> "builtin",
          signature |-> FindByName(BUILTINS, word).signature,
          detail |-> FindByName(BUILTINS, word).detail]
    ELSE IF Includes(KEYWORDS, word)
    THEN [kind |-> "keyword", name |-> word]
    ELSE IF FindByName(XvmConstants, word) # NotFound
    THEN [kind |-> "constant", name |-> FindByName(XvmConstants, word).name,
          detail |-> FindByName(XvmConstants, word).detail]
    ELSE NoResult

\* HoverResult that gives up when the dot before the word leads to no
\* method.
HoverResult_NoFallThrough(mods, lineText, range) ==
    IF range = NoRange THEN NoResult
    ELSE
    LET word == SubSeq(lineText, range.start + 1, range.end)
        asMethod == HoverMethod(mods, lineText, range, word)
        asModuleDot == HoverModuleDot(mods, lineText, range, word)
    IN  IF range.start > 0 /\ lineText[range.start] = "." THEN asMethod
        ELSE IF asModuleDot # NoResult THEN asModuleDot
        ELSE HoverStandalone(mods, word)

\* provideHover: the content of the hover, each block tried in turn.
HoverResult(mods, lineText, range) ==
    IF range = NoRange THEN NoResult
    ELSE
    LET word == SubSeq(lineText, range.start + 1, range.end)
        asMethod == HoverMethod(mods, lineText, range, word)
        asModuleDot == HoverModuleDot(mods, lineText, range, word)
    IN  IF asMethod # NoResult THEN asMethod
        ELSE IF asModuleDot # NoResult THEN asModuleDot
        ELSE HoverStandalone(mods, word)

\* Identifiers of the lines hovered over: modules and methods of the
\* reference file, a built-in, a keyword, a constant, unknown ones.
HoverWords ==
    { <<"v">>, <<"g", "o">>, <<"a", "b", "s">>, <<"H">>, <<"S">>,
      <<"l", "e", "n">>, <<"i", "f">>, <<"t", "r", "u", "e">>,
      <<"z">>, <<"2", "v">> }

HoverSeparators == { <<".">>, <<" ">>, <<".", " ">> }

\* The lines hovered over: one identifier, two or three with a dot, a space,
\* or a dot and a space between them, and a trailing dot.
HoverLines ==
    HoverWords
    \cup {a \o x \o b : a \in HoverWords, x \in HoverSeparators, b \in HoverWords}
    \cup {a \o <<".">> \o b \o <<".">> : a \in HoverWords, b \in HoverWords}
    \cup {a \o x \o <<"v">> \o <<".">> \o b :
             a \in {<<"z">>, <<"g", "o">>}, x \in HoverSeparators, b \in HoverWords}

\* provideHover is called on a line, the cursor on a word or on none.
HoverInit ==
    /\ hoverLine \in HoverLines
    /\ wordRange \in WordRanges(hoverLine) \cup {NoRange}
    /\ hoverResult = Pending

\* provideHover returns.
ProvideHover ==
    /\ hoverResult = Pending
    /\ hoverResult' = HoverResult(modules, hoverLine, wordRange)
    /\ UNCHANGED <<hoverLine, wordRange>>
    /\ UNCHANGED <<modules, parseVars, loadVars, sigVars, complVars>>

\* -------------------------------------------- properties of provideHover

\* The word under the cursor.
HoveredWord == SubSeq(hoverLine, wordRange.start + 1, wordRange.end)

\* The word is immediately preceded, followed, by a dot.
DotBefore == At(hoverLine, wordRange.start) = "."

DotAfter == At(hoverLine, wordRange.end + 1) = "."

\* The identifier that ends at the dot before the word: the longest run of
\* word characters there.
Owner ==
    LET dot == wordRange.start
        from == Min({a \in 1..dot :
                        \A k \in a..(dot - 1) : hoverLine[k] \in WordCh})
    IN  SubSeq(hoverLine, from, dot - 1)

IsModule(name) == \E i \in 1..Len(modules) : modules[i].name = name

IsMethodOf(owner, name) ==
    \E i \in 1..Len(modules) :
        /\ modules[i].name = owner
        /\ \E k \in 1..Len(modules[i].methods) :
              modules[i].methods[k].name = name

NamesOf(table) == {table[i].name : i \in 1..Len(table)}

\* text starts with prefix
StartsWith(text, prefix) ==
    Len(text) >= Len(prefix) /\ SubSeq(text, 1, Len(prefix)) = prefix

\* C8: hover resolves the word by the first of these that yields a match:
\* a dot before it, as a method of the module named before the dot; a dot
\* after it, as a module (the content has the module's description and its
\* number of methods); a module; a built-in; a keyword; a constant.  A word
\* that matches none has no hover.
C8_HoverPriority ==
    (hoverResult # Pending /\ wordRange # NoRange) =>
       LET word == HoveredWord
       IN  IF DotBefore /\ IsMethodOf(Owner, word)
           THEN /\ hoverResult.kind = "method"
                /\ hoverResult.name = Owner
                /\ StartsWith(hoverResult.signature,
                              Owner \o <<".">> \o word \o <<"(">>)
           ELSE IF DotAfter /\ IsModule(word)
           THEN /\ hoverResult.kind = "moduleDot"
                /\ \E i \in 1..Len(modules) :
                      /\ modules[i].name = word
                      /\ hoverResult.name = word
                      /\ hoverResult.description = modules[i].description
                      /\ hoverResult.methodCount = Len(modules[i].methods)
           ELSE IF IsModule(word)
           THEN hoverResult.kind = "module" /\ hoverResult.name = word
           ELSE IF word \in NamesOf(BUILTINS)
           THEN /\ hoverResult.kind = "builtin"
                /\ StartsWith(hoverResult.signature, word \o <<"(">>)
           ELSE IF \E i \in 1..Len(KEYWORDS) : KEYWORDS[i] = word
           THEN hoverResult.kind = "keyword" /\ hoverResult.name = word
           ELSE IF word \in NamesOf(XvmConstants)
           THEN hoverResult.kind = "constant" /\ hoverResult.name = word
           ELSE hoverResult = NoResult

\* The word is a method of the module before its dot, and also a module
\* followed by a dot and a built-in: the hover is the method's.
C8_Witness ==
    /\ hoverResult # Pending
    /\ wordRange # NoRange
    /\ DotBefore
    /\ DotAfter
    /\ IsModule(HoveredWord)
    /\ HoveredWord \in NamesOf(BUILTINS)
    /\ hoverResult.kind = "method"

\* ---------------------------------------------- provideCompletionItems

\* A number as the template literal `${n}` writes it.
RECURSIVE Decimal(_)
Decimal(n) ==
    IF n < 10 THEN << DigitCh[n + 1] >>
    ELSE Decimal(n \div 10) \o << DigitCh[(n % 10) + 1] >>

\* /\b(\w+)\.(\w*)$/ on t: the word characters t ends in (maybe none), a
\* dot before them, and the word that ends at the dot.
DotMatch(t) ==
    LET partial == TrailingWord(t)
        dot == Len(t) - Len(partial)
        mod == TrailingWord(SubSeq(t, 1, dot - 1))
    IN  IF At(t, dot) = "." /\ mod # << >>
        THEN [ok |-> TRUE, moduleName |-> mod, partial |-> partial]
        ELSE NoMatch

\* Placeholder with the parameter's zero-based index.
Placeholder_ZeroBased(p, i) ==
    <<"$", "{">> \o Decimal(i - 1) \o <<":">> \o p \o <<"}">>

\* `\${${i + 1}:${p}}` for the parameter p at position i (from 1 here, the
\* source's i + 1)
Placeholder(p, i) ==
    <<"$", "{">> \o Decimal(i) \o <<":">> \o p \o <<"}">>

\* The snippet inserted for a method: name(placeholders) or name()
InsertText(method) ==
    IF Len(method.params) > 0
    THEN method.name \o <<"(">>
            \o JoinComma([i \in 1..Len(method.params) |->
                              Placeholder(method.params[i], i)])
            \o <<")">>
    ELSE method.name \o <<"(", ")">>

\* The completion item of a method of a module.
MethodItem(moduleName, method) ==
    [label |-> method.name, kind |-> "Method",
     detail |-> MethodLabel(moduleName, method),
     documentation |-> [module |-> moduleName, name |-> method.name,
                        raw |-> method.raw],
     insertText |-> InsertText(method)]

\* The completion item of a module.
ModuleItem(mod) ==
    [label |-> mod.name, kind |-> "Module",
     detail |-> IF mod.description # << >> THEN mod.description
                ELSE <<"E", "n", "g", "i", "n", "e", " ", "m", "o", "d", "u", "l", "e", ":", " ">> \o mod.name,
     documentation |-> [name |-> mod.name, description |-> mod.description,
                        methodCount |-> Len(mod.methods)]]

KeywordItem(kw) == [label |-> kw, kind |-> "Keyword", detail |-> "keyword"]

ConstantItem(c) == [label |-> c.name, kind |-> "Constant", detail |-> c.detail]

BuiltinItem(b) ==
    [label |-> b.name, kind |-> "Function", signature |-> b.signature,
     documentation |-> b.detail]

\* The items of a module's methods, in the methods' order.
MethodItems(moduleName, methods) ==
    [k \in 1..Len(methods) |-> MethodItem(moduleName, methods[k])]

\* The top-level items: modules in the map's order, keywords, constants,
\* built-ins.
TopLevelItems(mods) ==
    [k \in 1..Len(mods) |-> ModuleItem(mods[k])]
    \o [k \in 1..Len(KEYWORDS) |-> KeywordItem(KEYWORDS[k])]
    \o [k \in 1..Len(XvmConstants) |-> ConstantItem(XvmConstants[k])]
    \o [k \in 1..Len(BUILTINS) |-> BuiltinItem(BUILTINS[k])]

\* CompletionItems that offers the top-level items whenever no module's
\* methods were offered.
CompletionItems_TopLevelFallback(mods, text) ==
    LET dotMatch == DotMatch(text)
    IN  IF dotMatch.ok /\ Has(mods, dotMatch.moduleName)
        THEN MethodItems(dotMatch.moduleName,
                         Get(mods, dotMatch.moduleName).methods)
        ELSE TopLevelItems(mods)

\* provideCompletionItems: after a dot the methods of a known module, not
\* after a dot the top-level items, and otherwise nothing.
CompletionItems(mods, text) ==
    LET dotMatch == DotMatch(text)
    IN  IF dotMatch.ok /\ Has(mods, dotMatch.moduleName)
        THEN MethodItems(dotMatch.moduleName,
                         Get(mods, dotMatch.moduleName).methods)
        ELSE IF ~dotMatch.ok THEN TopLevelItems(mods)
        ELSE << >>

\* What stands on the line before the identifier at the cursor.
ComplPrefixes ==
    { << >>, <<"z", " ">>, <<"x">>, <<"(">>, <<"2">>, <<"g", "o", ".">> }

\* The lines up to the cursor: an identifier, a dot and a partial
\* identifier after some prefix; and lines that end otherwise.
ComplTexts ==
    {pre \o id \o <<".">> \o partial :
        pre \in ComplPrefixes,
        id \in {<<"v">>, <<"g", "o">>, <<"a", "b", "s">>, <<"z">>},
        partial \in {<< >>, <<"S">>, <<"z", "9">>, <<"_">>}}
    \cup {pre \o tail :
             pre \in ComplPrefixes,
             tail \in {<< >>, <<"v">>, <<"v", ".", " ">>, <<"v", ".", "S", "(">>,
                       <<".">>, <<"v", " ", ".">>}}

\* provideCompletionItems is called.
ComplInit ==
    /\ complText \in ComplTexts
    /\ items = Pending

\* provideCompletionItems returns.
ProvideCompletionItems ==
    /\ items = Pending
    /\ items' = CompletionItems(modules, complText)
    /\ UNCHANGED complText
    /\ UNCHANGED <<modules, parseVars, loadVars, sigVars, hoverVars>>

\* ---------------------------------- properties of provideCompletionItems

\* The text ends in 'identifier.partial': the positions <<a, d>> of the
\* identifier's first character and of the dot.
MemberContexts(text) ==
    {ad \in (1..Len(text)) \X (1..Len(text)) :
        /\ ad[1] < ad[2]
        /\ text[ad[2]] = "."
        /\ \A k \in ad[1]..(ad[2] - 1) : text[k] \in WordCh
        /\ At(text, ad[1] - 1) \notin WordCh
        /\ \A k \in (ad[2] + 1)..Len(text) : text[k] \in WordCh}

\* The placeholders of the parameters from position i on, as the snippet
\* lists them.
RECURSIVE PlaceholdersFrom(_, _)
PlaceholdersFrom(params, i) ==
    IF i > Len(params) THEN << >>
    ELSE (IF i > 1 THEN <<",", " ">> ELSE << >>)
         \o <<"$", "{", DigitCh[i + 1], ":">> \o params[i] \o <<"}">>
         \o PlaceholdersFrom(params, i + 1)

\* C9: when the text before the cursor ends in 'identifier.partial' and the
\* identifier is a module, the candidates are that module's methods, one
\* each and in their order, whatever the partial text; a candidate inserts
\* 'name()' for a method without parameters and else
\* 'name(${1:p1}, ${2:p2}, ...)'.
C9_MemberCompletion ==
    items # Pending =>
       \A ad \in MemberContexts(complText) :
          \A i \in 1..Len(modules) :
             modules[i].name = SubSeq(complText, ad[1], ad[2] - 1) =>
                LET methods == modules[i].methods
                IN  /\ Len(items) = Len(methods)
                    /\ \A k \in 1..Len(methods) :
                          /\ items[k].label = methods[k].name
                          /\ items[k].kind = "Method"
                          /\ items[k].insertText =
                                methods[k].name \o <<"(">>
                                   \o PlaceholdersFrom(methods[k].params, 1)
                                   \o <<")">>

\* The methods of a module were offered after a partial identifier, one of
\* them with two parameters and one with none.
C9_Witness ==
    /\ items # Pending
    /\ \E ad \in MemberContexts(complText) :
          /\ ad[2] < Len(complText)
          /\ IsModule(SubSeq(complText, ad[1], ad[2] - 1))
    /\ \E k \in 1..Len(items) :
          items[k].insertText =
             <<"S", "(", "$", "{", "1", ":", "a", "}", ",", " ",
               "$", "{", "2", ":", "b", "}", ")">>
    /\ \E k \in 1..Len(items) : items[k].insertText = <<"H", "(", ")">>

\* The items of a kind, as the positions they stand at.
ItemsOfKind(list, kind) == {k \in 1..Len(list) : list[k].kind = kind}

\* The labels of the items of a kind.
LabelsOfKind(list, kind) == {list[k].label : k \in ItemsOfKind(list, kind)}

\* C12: the top-level candidates are returned exactly when the text before
\* the cursor does not end in 'identifier.partial', and are then every
\* module name, the 13 keywords, the 3 constants and the 4 built-ins,
\* |modules| + 20 candidates; after 'identifier.' with an identifier that is
\* no module the list is empty, and with a module it holds methods only.
C12_TopLevelCompletion ==
    items # Pending =>
       IF MemberContexts(complText) = {}
       THEN /\ Len(items) = Len(modules) + 20
            /\ Cardinality(ItemsOfKind(items, "Module")) = Len(modules)
            /\ LabelsOfKind(items, "Module")
                  = {modules[i].name : i \in 1..Len(modules)}
            /\ Cardinality(ItemsOfKind(items, "Keyword")) = 13
            /\ Cardinality(LabelsOfKind(items, "Keyword")) = 13
            /\ LabelsOfKind(items, "Keyword")
                  = {KEYWORDS[k] : k \in 1..Len(KEYWORDS)}
            /\ Cardinality(ItemsOfKind(items, "Constant")) = 3
            /\ LabelsOfKind(items, "Constant")
                  = {<<"t", "r", "u", "e">>, <<"f", "a", "l", "s", "e">>,
                     <<"n", "o", "n", "e">>}
            /\ Cardinality(ItemsOfKind(items, "Function")) = 4
            /\ LabelsOfKind(items, "Function")
                  = {<<"l", "e", "n">>, <<"f", "l", "o", "a", "t">>,
                     <<"i", "n", "t">>, <<"a", "b", "s">>}
       ELSE \A ad \in MemberContexts(complText) :
               IF \E i \in 1..Len(modules) :
                     modules[i].name = SubSeq(complText, ad[1], ad[2] - 1)
               THEN \A k \in 1..Len(items) : items[k].kind = "Method"
               ELSE items = << >>

\* Nothing was offered after 'identifier.' with an identifier that is no
\* module, on an index that has modules.
C12_Witness ==
    /\ items # Pending
    /\ modules # << >>
    /\ \E ad \in MemberContexts(complText) :
          ~IsModule(SubSeq(complText, ad[1], ad[2] - 1))
    /\ items = << >>

\* ---------------------------------------------------------- specifications

\* The variables of the parts a specification leaves alone stay as here.
LoadIdle ==
    /\ fsExists = {}
    /\ readRaises = FALSE
    /\ configPath = Undefined
    /\ workspaceFolders = NoFolders
    /\ lpc = "done"
    /\ folderIdx = 1
    /\ candIdx = 1
    /\ globalsPath = Undefined
    /\ activation = "ok"

SigIdle ==
    /\ textBefore = << >>
    /\ spc = "idle"
    /\ scanI = 0
    /\ depth = 0
    /\ parenPos = 0
    /\ commaCount = 0
    /\ sigResult = NoResult

HoverIdle ==
    /\ hoverLine = << >>
    /\ wordRange = NoRange
    /\ hoverResult = NoResult

ComplIdle ==
    /\ complText = << >>
    /\ items = << >>

vars == <<modules, parseVars, loadVars, sigVars, hoverVars, complVars>>

\* parseGlobals' loop over the lines of a file
Init ==
    /\ modules = << >>
    /\ ParseInit
    /\ LoadIdle /\ SigIdle /\ HoverIdle /\ ComplIdle

Next == ReadLine

Spec == Init /\ [][Next]_vars

\* findGlobalsFile and activate
InitLoad ==
    /\ modules = << >>
    /\ ParseInit
    /\ LoadInit
    /\ SigIdle /\ HoverIdle /\ ComplIdle

NextLoad ==
    \/ CheckConfig
    \/ CheckCandidate
    \/ FoldersDone
    \/ CheckExt
    \/ CheckParent
    \/ ActivateNoFile
    \/ ActivateParse
    \/ ActivateVanished

SpecLoad == InitLoad /\ [][NextLoad]_vars

\* provideSignatureHelp on an index
InitSig ==
    /\ modules \in Indexes
    /\ ParseInit /\ LoadIdle
    /\ SigInit
    /\ HoverIdle /\ ComplIdle

NextSig ==
    \/ ScanStep
    \/ ScanEnd
    \/ Resolve

SpecSig == InitSig /\ [][NextSig]_vars

\* provideSignatureHelp on an index, the cursor after a callee
InitCallee ==
    /\ modules \in Indexes
    /\ ParseInit /\ LoadIdle
    /\ CalleeInit
    /\ HoverIdle /\ ComplIdle

NextCallee ==
    \/ ScanStep
    \/ ScanEnd
    \/ Resolve

SpecCallee == InitCallee /\ [][NextCallee]_vars

\* provideHover on an index
InitHover ==
    /\ modules \in Indexes
    /\ ParseInit /\ LoadIdle /\ SigIdle
    /\ HoverInit
    /\ ComplIdle

NextHover == ProvideHover

SpecHover == InitHover /\ [][NextHover]_vars

\* provideCompletionItems on an index
InitCompl ==
    /\ modules \in Indexes
    /\ ParseInit /\ LoadIdle /\ SigIdle /\ HoverIdle
    /\ ComplInit

NextCompl == ProvideCompletionItems

SpecCompl == InitCompl /\ [][NextCompl]_vars

====
